---- MODULE Spec2Model ----
(***************************************************************************)
(* Link/helper of react-d3-graph: buildLinkPathDefinition and the helpers  *)
(* it calls, together with the Link/const module it imports from.          *)
(*                                                                         *)
(* Numbers are exact fixed-point reals: a JavaScript number v is held as   *)
(* the integer v * Scale.  The inputs are drawn from points whose          *)
(* connecting segments have rational unit vectors (axis-parallel, 3-4-5    *)
(* and zero-length segments), so that Math.atan2, Math.sin, Math.cos,      *)
(* Math.sqrt and the factor 0.9 are all computed without rounding.  An     *)
(* angle is held as its (cos, sin) pair, which names one angle of          *)
(* (-pi, pi] each.  IEEE-754 rounding is not modelled.                     *)
(***************************************************************************)
EXTENDS Integers, Sequences, FiniteSets, TLC

MaxBreakPoints == 2

Scale == 5 * 10

Num(n) == n * Scale

Mul(a, b) == (a * b) \div Scale

Abs(a) == IF a < 0 THEN -a ELSE a

RECURSIVE SqrtSearch(_, _, _)
SqrtSearch(n, lo, hi) ==
  IF lo >= hi THEN lo
  ELSE LET mid == (lo + hi + 1) \div 2
       IN IF mid * mid <= n THEN SqrtSearch(n, mid, hi)
          ELSE SqrtSearch(n, lo, mid - 1)

\* Math.sqrt on a fixed-point real (exact on squares, rounded down otherwise)
MathSqrt(a) == IF a <= 0 THEN 0 ELSE SqrtSearch(a * Scale, 0, a * Scale)

\* Math.PI / 2 and -Math.PI / 2, as (cos, sin)
HalfPi == [c |-> 0, s |-> Num(1)]
MinusHalfPi == [c |-> 0, s |-> Num(-1)]

\* Math.atan2(dy, dx); atan2(0, 0) is 0
MathAtan2(dy, dx) ==
  IF dx = 0 /\ dy = 0 THEN [c |-> Num(1), s |-> 0]
  ELSE LET d == MathSqrt(Mul(dx, dx) + Mul(dy, dy))
       IN [c |-> (dx * Scale) \div d, s |-> (dy * Scale) \div d]

MathSin(a) == a.s

MathCos(a) == a.c

-----------------------------------------------------------------------------
(* JavaScript values: strings stand for themselves, two markers stand for  *)
(* undefined and for a raised TypeError, one for a function object.        *)

Undefined == "#undefined"

TypeError == "#TypeError"

ObjectFunction == "#function Object"

ObjectPrototypeKeys == {"constructor"}

-----------------------------------------------------------------------------
(* Link/const *)

LINE_TYPES ==
  [STRAIGHT |-> "STRAIGHT", CURVE_SMOOTH |-> "CURVE_SMOOTH", CURVE_FULL |-> "CURVE_FULL"]

LINE_POS_OFFSET == 3

LinkConstExports == {"LINE_TYPES", "LINE_POS_OFFSET"}

\* the binding an import of `name` from Link/const gets after transpilation:
\* the exported object, or undefined
ImportFromLinkConst(name, props) ==
  IF name \in LinkConstExports
  THEN [defined |-> TRUE, props |-> props]
  ELSE [defined |-> FALSE, props |-> props]

SelfLinkDirections == {"TOP_LEFT", "TOP_RIGHT", "BOTTOM_LEFT", "BOTTOM_RIGHT"}

SELF_LINK_DIRECTION == ImportFromLinkConst("SELF_LINK_DIRECTION", SelfLinkDirections)

\* obj.key for an imported binding whose properties (when it is defined)
\* are named `props` and hold their own names
Member(obj, key) ==
  IF ~obj.defined THEN TypeError
  ELSE IF key \in obj.props THEN key
  ELSE Undefined

-----------------------------------------------------------------------------
(* Link/helper *)

straightLineRadius == 0

\* slip: the second square is taken of dx * dy
smoothCurveRadius_MixedSquare(x1, y1, x2, y2) ==
  LET dx == x2 - x1
      dy == y2 - y1
  IN MathSqrt(Mul(dx, dx) + Mul(dx, dy))

smoothCurveRadius(x1, y1, x2, y2) ==
  LET dx == x2 - x1
      dy == y2 - y1
  IN MathSqrt(Mul(dx, dx) + Mul(dy, dy))

\* slip: the full curve takes the straight line's radius
fullCurveRadius_AsStraight == straightLineRadius

fullCurveRadius == Num(1)

RADIUS_STRATEGIES ==
  [STRAIGHT |-> "straightLineRadius",
   CURVE_SMOOTH |-> "smoothCurveRadius",
   CURVE_FULL |-> "fullCurveRadius"]

\* LINE_TYPES[type]: own property, inherited property or undefined
LineTypesLookup(type) ==
  IF type \in DOMAIN LINE_TYPES THEN LINE_TYPES[type]
  ELSE IF type \in ObjectPrototypeKeys THEN ObjectFunction
  ELSE Undefined

\* slip: an unknown type falls back to the smooth curve
ValidType_FallbackSmooth(type) ==
  LET looked == LineTypesLookup(type)
  IN IF looked = Undefined THEN LINE_TYPES.CURVE_SMOOTH ELSE looked

\* LINE_TYPES[type] || LINE_TYPES.STRAIGHT
ValidType(type) ==
  LET looked == LineTypesLookup(type)
  IN IF looked = Undefined THEN LINE_TYPES.STRAIGHT ELSE looked

getRadiusStrategy(type) ==
  IF type \in DOMAIN RADIUS_STRATEGIES THEN RADIUS_STRATEGIES[type]
  ELSE RADIUS_STRATEGIES[LINE_TYPES.STRAIGHT]

\* calcRadiusFn(x1, y1, x2, y2)
CallRadiusFn(fn, x1, y1, x2, y2) ==
  CASE fn = "smoothCurveRadius" -> smoothCurveRadius(x1, y1, x2, y2)
    [] fn = "fullCurveRadius" -> fullCurveRadius
    [] OTHER -> straightLineRadius

\* slip: the vertical branch forgets the direction of the segment
angleBetweenPoints_OneSign(x1, y1, x2, y2) ==
  IF x1 = x2 THEN HalfPi ELSE MathAtan2(y2 - y1, x2 - x1)

\* slip: the vertical branch has its two signs the wrong way round
angleBetweenPoints_SwappedSigns(x1, y1, x2, y2) ==
  IF x1 = x2
  THEN IF y1 > y2 THEN HalfPi ELSE MinusHalfPi
  ELSE MathAtan2(y2 - y1, x2 - x1)

angleBetweenPoints(x1, y1, x2, y2) ==
  IF x1 = x2
  THEN IF y1 > y2 THEN MinusHalfPi ELSE HalfPi
  ELSE MathAtan2(y2 - y1, x2 - x1)

-----------------------------------------------------------------------------
(* Path definitions: the commands of the returned string, in order, and    *)
(* the string the template literal renders them to.                        *)

Digit(d) == <<"0", "1", "2", "3", "4", "5", "6", "7", "8", "9">>[d + 1]

RECURSIVE NatStr(_)
NatStr(n) == IF n < 10 THEN Digit(n) ELSE NatStr(n \div 10) \o Digit(n % 10)

\* `${v}` for a number v
NumStr(v) ==
  LET a == Abs(v)
      h == ((a % Scale) * 100) \div Scale
      frac == IF h = 0 THEN ""
              ELSE IF h % 10 = 0 THEN "." \o Digit(h \div 10)
              ELSE "." \o Digit(h \div 10) \o Digit(h % 10)
  IN (IF v < 0 THEN "-" ELSE "") \o NatStr(a \div Scale) \o frac

MoveTo(x, y) ==
  [cmd |-> "M", rx |-> 0, ry |-> 0, rot |-> 0, large |-> 0, sweep |-> 0, x |-> x, y |-> y]

LineTo(x, y) ==
  [cmd |-> "L", rx |-> 0, ry |-> 0, rot |-> 0, large |-> 0, sweep |-> 0, x |-> x, y |-> y]

ArcTo(rx, ry, rot, large, sweep, x, y) ==
  [cmd |-> "A", rx |-> rx, ry |-> ry, rot |-> rot, large |-> large, sweep |-> sweep,
   x |-> x, y |-> y]

CmdString(c) ==
  CASE c.cmd = "M" -> "M" \o NumStr(c.x) \o "," \o NumStr(c.y)
    [] c.cmd = "L" -> "L" \o NumStr(c.x) \o "," \o NumStr(c.y)
    [] OTHER -> " A" \o NumStr(c.rx) \o "," \o NumStr(c.ry) \o " " \o NumStr(c.rot)
                \o " " \o NumStr(c.large) \o "," \o NumStr(c.sweep)
                \o " " \o NumStr(c.x) \o "," \o NumStr(c.y)

RECURSIVE PathString(_)
PathString(cmds) ==
  IF cmds = <<>> THEN "" ELSE CmdString(Head(cmds)) \o PathString(Tail(cmds))

Returned(cmds) == [status |-> "returned", cmds |-> cmds, d |-> PathString(cmds)]

Thrown == [status |-> "TypeError", cmds |-> <<>>, d |-> ""]

\* `M${sx},${sy} A40,30 ${rot} 1,1 ${ex},${ey}`
SelfLinkArc(sx, sy, rot, ex, ey) ==
  Returned(<<MoveTo(sx, sy), ArcTo(Num(40), Num(30), Num(rot), Num(1), Num(1), ex, ey)>>)

\* the switch over selfLinkDirection; every case label is evaluated in turn
SelfLinkSwitch(sx, sy, tx, ty, selfLinkDirection) ==
  LET topLeft == Member(SELF_LINK_DIRECTION, "TOP_LEFT")
      bottomLeft == Member(SELF_LINK_DIRECTION, "BOTTOM_LEFT")
      bottomRight == Member(SELF_LINK_DIRECTION, "BOTTOM_RIGHT")
  IN IF topLeft = TypeError THEN Thrown
     ELSE IF selfLinkDirection = topLeft
       THEN SelfLinkArc(sx, sy, 45, tx + Num(1), ty - Num(1))
     ELSE IF bottomLeft = TypeError THEN Thrown
     ELSE IF selfLinkDirection = bottomLeft
       THEN SelfLinkArc(sx, sy, -45, tx - Num(1), ty - Num(1))
     ELSE IF bottomRight = TypeError THEN Thrown
     ELSE IF selfLinkDirection = bottomRight
       THEN SelfLinkArc(sx, sy, 45, tx - Num(1), ty + Num(1))
     ELSE SelfLinkArc(sx, sy, -45, tx + Num(1), ty + Num(1))

\* the anti-collision shift of the segment (px, py) -> (x, y)
OffsetsX(px, py, x, y) == LINE_POS_OFFSET * MathSin(angleBetweenPoints(px, py, x, y))

OffsetsY(px, py, x, y) == LINE_POS_OFFSET * (-MathCos(angleBetweenPoints(px, py, x, y)))

\* slip: the target is left out of the points the arcs are built for
RestOfLinkPoints_NoTarget(breakPoints, targetCoords) == breakPoints

\* restOfLinkPoints = [...breakPoints, targetCoords]
RestOfLinkPoints(breakPoints, targetCoords) == breakPoints \o <<targetCoords>>

\* the callback of restOfLinkPoints.map for index i (1-based)
RestOfLinkSegment(calcRadiusFn, sourceCoords, restOfLinkPoints, i) ==
  LET x == Num(restOfLinkPoints[i].x)
      y == Num(restOfLinkPoints[i].y)
      prev == IF i > 1 THEN restOfLinkPoints[i - 1] ELSE sourceCoords
      px == Num(prev.x)
      py == Num(prev.y)
      offsetsX == OffsetsX(px, py, x, y)
      offsetsY == OffsetsY(px, py, x, y)
      sxOffset == px + offsetsX
      syOffset == py + offsetsY
      txOffset == x + offsetsX
      tyOffset == y + offsetsY
      radius == CallRadiusFn(calcRadiusFn, sxOffset, syOffset, txOffset, tyOffset)
  IN ArcTo(radius, radius, 0, 0, Num(1), offsetsX, offsetsY)

RestOfLinkPath(calcRadiusFn, sourceCoords, restOfLinkPoints) ==
  [i \in 1..Len(restOfLinkPoints) |->
     RestOfLinkSegment(calcRadiusFn, sourceCoords, restOfLinkPoints, i)]

\* (t - s) * 0.9 + s
MidCoord(sReal, tReal) == ((tReal - sReal) * 9) \div 10 + sReal

RegularPath(sourceCoords, targetCoords, type, breakPoints) ==
  LET sx == Num(sourceCoords.x)
      sy == Num(sourceCoords.y)
      tx == Num(targetCoords.x)
      ty == Num(targetCoords.y)
      validType == ValidType(type)
      calcRadiusFn == getRadiusStrategy(validType)
      restOfLinkPoints == RestOfLinkPoints(breakPoints, targetCoords)
      restOfLinkPath == RestOfLinkPath(calcRadiusFn, sourceCoords, restOfLinkPoints)
      offsetX == OffsetsX(sx, sy, tx, ty)
      offsetY == OffsetsY(sx, sy, tx, ty)
      sxReal == sx + offsetX
      syReal == sy + offsetY
      txReal == tx + offsetX
      tyReal == ty + offsetY
      midX == MidCoord(sxReal, txReal)
      midY == MidCoord(syReal, tyReal)
  IN Returned(<<MoveTo(sxReal, syReal), LineTo(midX, midY)>> \o restOfLinkPath)

buildLinkPathDefinition(sourceCoords, targetCoords, typeArg, breakPoints, sourceId, targetId, selfLinkDirectionArg) ==
  LET type == IF typeArg = Undefined THEN LINE_TYPES.STRAIGHT ELSE typeArg
      selfLinkDirection ==
        IF selfLinkDirectionArg = Undefined
        THEN Member(SELF_LINK_DIRECTION, "TOP_RIGHT")
        ELSE selfLinkDirectionArg
  IN IF selfLinkDirection = TypeError THEN Thrown
     ELSE IF sourceId = targetId /\ sourceCoords.x = targetCoords.x
             /\ sourceCoords.y = targetCoords.y
       THEN SelfLinkSwitch(Num(sourceCoords.x), Num(sourceCoords.y),
                           Num(targetCoords.x), Num(targetCoords.y), selfLinkDirection)
     ELSE RegularPath(sourceCoords, targetCoords, type, breakPoints)

-----------------------------------------------------------------------------
(* The calls: one link and the link in the opposite direction between the  *)
(* same two nodes.                                                         *)

VARIABLES sourceCoords, targetCoords, type, breakPoints, sourceId, targetId,
          selfLinkDirection, pc, result, reverse

vars == <<sourceCoords, targetCoords, type, breakPoints, sourceId, targetId,
          selfLinkDirection, pc, result, reverse>>

args == <<sourceCoords, targetCoords, type, breakPoints, sourceId, targetId,
          selfLinkDirection>>

Point(x, y) == [x |-> x, y |-> y]

Points == {Point(x, y) : x \in {0, 3}, y \in {0, 4}} \cup {Point(100, 100)}

NodeIds == {"a", "b"}

TypeArgs == {"STRAIGHT", "CURVE_SMOOTH", "CURVE_FULL", "ZIGZAG", "constructor", Undefined}

DirectionArgs == SelfLinkDirections \cup {"SIDEWAYS", Undefined}

BreakPointCoords == {Point(3, 0), Point(0, 4), Point(3, 4)}

BreakPointLists == UNION {[1..n -> BreakPointCoords] : n \in 0..MaxBreakPoints}

\* the segment has a rational unit vector at the resolution of Scale
ExactSegment(p, q) ==
  LET dx == q.x - p.x
      dy == q.y - p.y
  IN \E d \in 0..(Abs(dx) + Abs(dy)) :
       /\ d * d = dx * dx + dy * dy
       /\ IF d = 0 THEN TRUE
          ELSE (Scale * Abs(dx)) % d = 0 /\ (Scale * Abs(dy)) % d = 0

ExactInputs(s, t, bps) ==
  LET chain == <<s>> \o bps \o <<t>>
  IN /\ ExactSegment(s, t)
     /\ \A i \in 1..(Len(chain) - 1) : ExactSegment(chain[i], chain[i + 1])

NotCalled == [status |-> "pending", cmds |-> <<>>, d |-> ""]

Init ==
  /\ sourceCoords \in Points
  /\ targetCoords \in Points
  /\ breakPoints \in BreakPointLists
  /\ ExactInputs(sourceCoords, targetCoords, breakPoints)
  /\ type \in TypeArgs
  /\ sourceId = "a"
  /\ targetId \in NodeIds
  /\ selfLinkDirection \in DirectionArgs
  /\ pc = "start"
  /\ result = NotCalled
  /\ reverse = NotCalled

Reversed(s) == [i \in 1..Len(s) |-> s[Len(s) + 1 - i]]

Invoke ==
  /\ pc = "start"
  /\ result' = buildLinkPathDefinition(sourceCoords, targetCoords, type, breakPoints,
                                       sourceId, targetId, selfLinkDirection)
  /\ pc' = "called"
  /\ UNCHANGED <<args, reverse>>

InvokeReverse ==
  /\ pc = "called"
  /\ reverse' = buildLinkPathDefinition(targetCoords, sourceCoords, type,
                                        Reversed(breakPoints), targetId, sourceId,
                                        selfLinkDirection)
  /\ pc' = "done"
  /\ UNCHANGED <<args, result>>

Next == Invoke \/ InvokeReverse

Spec == Init /\ [][Next]_vars

-----------------------------------------------------------------------------
(* Vocabulary of the properties *)

Called == pc # "start"

IsSelfLinkCall ==
  sourceId = targetId /\ sourceCoords.x = targetCoords.x /\ sourceCoords.y = targetCoords.y

Coincident == sourceCoords.x = targetCoords.x /\ sourceCoords.y = targetCoords.y

\* source, breakpoints and target, in drawing order
Chain == <<sourceCoords>> \o breakPoints \o <<targetCoords>>

IsSelfLinkArcResult(r) ==
  /\ r.status = "returned"
  /\ Len(r.cmds) = 2
  /\ r.cmds[1].cmd = "M"
  /\ r.cmds[2].cmd = "A"
  /\ r.cmds[2].rx = Num(40) /\ r.cmds[2].ry = Num(30)

IsRegularPathResult(r) ==
  /\ r.status = "returned"
  /\ Len(r.cmds) >= 3
  /\ r.cmds[1].cmd = "M"
  /\ r.cmds[2].cmd = "L"
  /\ \A i \in 3..Len(r.cmds) : r.cmds[i].cmd = "A"

\* the string C1 gives for a self-link at (x, y) drawn in direction dir
ExpectedSelfLinkString(x, y, dir) ==
  LET str(n) == NumStr(Num(n))
      head == "M" \o str(x) \o "," \o str(y) \o " A40,30 "
  IN IF dir = "TOP_LEFT"
     THEN head \o "45 1,1 " \o str(x + 1) \o "," \o str(y - 1)
     ELSE head \o "-45 1,1 " \o str(x + 1) \o "," \o str(y + 1)

-----------------------------------------------------------------------------
\* C1: every self-link call (equal ids, identical coordinates) returns one of
\* the four fixed arc strings: TOP_RIGHT or an unrecognised direction gives
\* "M{x},{y} A40,30 -45 1,1 {x+1},{y+1}", TOP_LEFT gives
\* "M{x},{y} A40,30 45 1,1 {x+1},{y-1}", the BOTTOM directions give an arc of
\* radii (40,30) ending 1 away from (x,y) on each axis, the four strings are
\* pairwise distinct; at (100,100) TOP_RIGHT
\* gives "M100,100 A40,30 -45 1,1 101,101" and TOP_LEFT "M100,100 A40,30 45 1,1 101,99".
C1_SelfLinkArcStrings ==
  (Called /\ IsSelfLinkCall) =>
    /\ IsSelfLinkArcResult(result)
    /\ Abs(result.cmds[2].x - Num(sourceCoords.x)) = Num(1)
    /\ Abs(result.cmds[2].y - Num(sourceCoords.y)) = Num(1)
    /\ selfLinkDirection \notin {"BOTTOM_LEFT", "BOTTOM_RIGHT"} =>
         result.d = ExpectedSelfLinkString(sourceCoords.x, sourceCoords.y, selfLinkDirection)
    /\ \A d1, d2 \in SelfLinkDirections :
         d1 # d2 =>
           buildLinkPathDefinition(sourceCoords, targetCoords, type, breakPoints,
                                   sourceId, targetId, d1).d
             # buildLinkPathDefinition(sourceCoords, targetCoords, type, breakPoints,
                                       sourceId, targetId, d2).d
    /\ (sourceCoords = Point(100, 100) /\ selfLinkDirection = "TOP_RIGHT") =>
         result.d = "M100,100 A40,30 -45 1,1 101,101"
    /\ (sourceCoords = Point(100, 100) /\ selfLinkDirection = "TOP_LEFT") =>
         result.d = "M100,100 A40,30 45 1,1 101,99"

\* C2: in every returned regular path the offset endpoints are the draw
\* endpoints: M is the source displaced by the offset, every arc ends at its
\* point displaced by its segment's offset, and the last arc ends at the
\* target displaced by the offset, (tx+offsetX, ty+offsetY).
C2_OffsetEndpointsAreDrawEndpoints ==
  (Called /\ ~IsSelfLinkCall /\ result.status = "returned") =>
    LET sx == Num(sourceCoords.x)
        sy == Num(sourceCoords.y)
        tx == Num(targetCoords.x)
        ty == Num(targetCoords.y)
        n == Len(breakPoints)
    IN /\ result.cmds[1].x = sx + OffsetsX(sx, sy, tx, ty)
       /\ result.cmds[1].y = sy + OffsetsY(sx, sy, tx, ty)
       /\ \A i \in 1..(n + 1) :
            LET px == Num(Chain[i].x)
                py == Num(Chain[i].y)
                x == Num(Chain[i + 1].x)
                y == Num(Chain[i + 1].y)
            IN /\ result.cmds[i + 2].x = x + OffsetsX(px, py, x, y)
               /\ result.cmds[i + 2].y = y + OffsetsY(px, py, x, y)
       /\ result.cmds[n + 3].x = tx + OffsetsX(sx, sy, tx, ty)
       /\ result.cmds[n + 3].y = ty + OffsetsY(sx, sy, tx, ty)

\* C3: a returned regular path for n breakpoints is, in order, one M at the
\* offset source, one L at 0.9 of the way from the offset source to the offset
\* target, and n+1 arcs, the i-th computed from the i-th segment of
\* source, breakpoints, target.
C3_PathShape ==
  (Called /\ ~IsSelfLinkCall /\ result.status = "returned") =>
    LET sx == Num(sourceCoords.x)
        sy == Num(sourceCoords.y)
        tx == Num(targetCoords.x)
        ty == Num(targetCoords.y)
        n == Len(breakPoints)
        m == result.cmds[1]
        l == result.cmds[2]
    IN /\ Len(result.cmds) = n + 3
       /\ IsRegularPathResult(result)
       /\ m.x = sx + OffsetsX(sx, sy, tx, ty)
       /\ m.y = sy + OffsetsY(sx, sy, tx, ty)
       /\ 10 * (l.x - m.x) = 9 * ((tx + OffsetsX(sx, sy, tx, ty)) - m.x)
       /\ 10 * (l.y - m.y) = 9 * ((ty + OffsetsY(sx, sy, tx, ty)) - m.y)
       /\ \A i \in 1..(n + 1) :
            LET px == Num(Chain[i].x)
                py == Num(Chain[i].y)
                x == Num(Chain[i + 1].x)
                y == Num(Chain[i + 1].y)
            IN /\ result.cmds[i + 2].x = OffsetsX(px, py, x, y)
               /\ result.cmds[i + 2].y = OffsetsY(px, py, x, y)

C3_Witness ==
  /\ Called /\ ~IsSelfLinkCall /\ result.status = "returned"
  /\ Len(breakPoints) = 2
  /\ breakPoints[1] # breakPoints[2]
  /\ ~Coincident

\* C4: the self-link arc is returned exactly when the ids are equal and the
\* coordinates identical; every other call returns a regular path (M, L,
\* arcs) without failing, and when its endpoints coincide the L point is the
\* M point.
C4_SelfLinkIffAndGracefulDegenerate ==
  Called =>
    /\ IsSelfLinkArcResult(result) <=> IsSelfLinkCall
    /\ ~IsSelfLinkCall =>
         /\ IsRegularPathResult(result)
         /\ Coincident =>
              /\ result.cmds[2].x = result.cmds[1].x
              /\ result.cmds[2].y = result.cmds[1].y

\* C5: a non-self-link call whose type is none of STRAIGHT, CURVE_SMOOTH,
\* CURVE_FULL (or is omitted) gives the result of the same call with type
\* STRAIGHT, and every arc of it has radius 0.
C5_UnknownTypeIsStraight ==
  (Called /\ ~IsSelfLinkCall /\ type \notin {"STRAIGHT", "CURVE_SMOOTH", "CURVE_FULL"}) =>
    /\ result = buildLinkPathDefinition(sourceCoords, targetCoords, "STRAIGHT", breakPoints,
                                        sourceId, targetId, selfLinkDirection)
    /\ \A i \in 3..Len(result.cmds) : result.cmds[i].rx = 0 /\ result.cmds[i].ry = 0

C5_Witness ==
  /\ Called /\ ~IsSelfLinkCall /\ result.status = "returned"
  /\ type = "ZIGZAG"
  /\ Len(breakPoints) = 1
  /\ sourceCoords # breakPoints[1]
  /\ ~Coincident

\* C6: with type CURVE_FULL and distinct endpoints every arc of the returned
\* path has rx = ry = 1.
C6_CurveFullRadiusOne ==
  (Called /\ type = "CURVE_FULL" /\ ~Coincident /\ result.status = "returned") =>
    /\ IsRegularPathResult(result)
    /\ \A i \in 3..Len(result.cmds) :
         result.cmds[i].rx = Num(1) /\ result.cmds[i].ry = Num(1)

C6_Witness ==
  /\ Called /\ type = "CURVE_FULL" /\ ~Coincident /\ result.status = "returned"
  /\ Len(breakPoints) = 2
  /\ sourceId = targetId

AngleSegments ==
  {<<sourceCoords, targetCoords>>} \cup {<<Chain[i], Chain[i + 1]>> : i \in 1..(Len(Chain) - 1)}

AngleOf(seg) ==
  angleBetweenPoints(Num(seg[1].x), Num(seg[1].y), Num(seg[2].x), Num(seg[2].y))

Atan2Of(seg) == MathAtan2(Num(seg[2].y) - Num(seg[1].y), Num(seg[2].x) - Num(seg[1].x))

\* C9 as stated: angleBetweenPoints agrees with atan2(dy, dx) on all inputs,
\* the branch for x1 = x2 included, so the path of a regular link starts at
\* the source shifted along the normal of the atan2 angle.
C9_BranchRedundantEverywhere ==
  (Called /\ ~IsSelfLinkCall /\ result.status = "returned") =>
    /\ \A seg \in AngleSegments : AngleOf(seg) = Atan2Of(seg)
    /\ result.cmds[1].x - Num(sourceCoords.x)
         = LINE_POS_OFFSET * MathSin(Atan2Of(<<sourceCoords, targetCoords>>))
    /\ result.cmds[1].y - Num(sourceCoords.y)
         = LINE_POS_OFFSET * (-MathCos(Atan2Of(<<sourceCoords, targetCoords>>)))

\* C9 amended: angleBetweenPoints agrees with atan2(dy, dx) on every pair of
\* distinct points, vertical ones included; on coincident points the branch
\* returns +pi/2 where atan2(0, 0) is 0, so a regular link between coincident
\* points is shifted by (3, 0) and not by (0, -3).
C9_BranchRedundantOffCoincident ==
  (Called /\ ~IsSelfLinkCall /\ result.status = "returned") =>
    /\ \A seg \in AngleSegments :
         IF seg[1] # seg[2]
         THEN AngleOf(seg) = Atan2Of(seg)
         ELSE AngleOf(seg) = HalfPi /\ Atan2Of(seg) = [c |-> Num(1), s |-> 0]
    /\ ~Coincident =>
         /\ result.cmds[1].x - Num(sourceCoords.x)
              = LINE_POS_OFFSET * MathSin(Atan2Of(<<sourceCoords, targetCoords>>))
         /\ result.cmds[1].y - Num(sourceCoords.y)
              = LINE_POS_OFFSET * (-MathCos(Atan2Of(<<sourceCoords, targetCoords>>)))
    /\ Coincident =>
         /\ result.cmds[1].x - Num(sourceCoords.x) = Num(3)
         /\ result.cmds[1].y - Num(sourceCoords.y) = 0

C9_Witness ==
  /\ Called /\ ~IsSelfLinkCall /\ result.status = "returned"
  /\ sourceCoords.x = targetCoords.x
  /\ sourceCoords.y > targetCoords.y
  /\ Len(breakPoints) = 1
  /\ breakPoints[1] = targetCoords

\* C10: a call that omits selfLinkDirection resolves it to TOP_RIGHT and
\* returns a path string without raising, for self-links and regular links
\* alike: SELF_LINK_DIRECTION is defined by the module it is imported from.
C10_OmittedDirectionReturns ==
  (Called /\ selfLinkDirection = Undefined) =>
    /\ SELF_LINK_DIRECTION.defined
    /\ result.status = "returned"
    /\ IsSelfLinkCall => IsSelfLinkArcResult(result)
    /\ ~IsSelfLinkCall => IsRegularPathResult(result)

====
